---- MODULE Spec2Model ----
(***************************************************************************)
(* Model of wordle/script.js: the browser Wordle game.                     *)
(*                                                                         *)
(* State: the script's globals (validWords, WORD, currentRow, currentTile, *)
(* gameOver, isAnimating), the DOM state its handlers read or write (tile  *)
(* letters, tile colour classes, key colour classes, the help modal's      *)
(* 'show' class, the message text, the play-again button's 'show' class)   *)
(* and the queue of pending setTimeout callbacks.                          *)
(*                                                                         *)
(* Time: every delay in the script is a multiple of 50 ms, so time is      *)
(* counted in ticks of TickMs.  Each pending timer holds its remaining     *)
(* delay; Tick lets one tick pass when no timer is due; FireTimer runs the *)
(* oldest due timer.  Input events arrive at tick instants, in any order   *)
(* relative to the timers due at that instant.                             *)
(*                                                                         *)
(* Environment: the player types words of TypedWords, acts at instants at *)
(* which a timer is due or none is pending (Instant), waits for the tiles  *)
(* to finish flipping before acting (Calm), clicks the play-again button   *)
(* only while it is shown, and at most MaxResets times.                    *)
(*                                                                         *)
(* Not modelled: CSS classes that no handler reads and that carry no       *)
(* letter or colour ('filled', 'flip', 'bounce', 'shake'), the message     *)
(* element's own 'show' class with its auto-hide timer, and the help       *)
(* modal's example-tile animation.                                         *)
(***************************************************************************)
EXTENDS Integers, Sequences, FiniteSets, TLC

\* ---------------------------------------------------------------- constants
MAX_GUESSES == 6
WORD_LENGTH == 5

\* Delays of the setTimeout calls, in milliseconds.
StaggerMs == 100
FlipMs == 250
EndExtraMs == 300
OverMs == 600

RECURSIVE GCD(_, _)
GCD(a, b) == IF b = 0 THEN a ELSE GCD(b, a % b)

\* One tick: the greatest common divisor of all delays (50 ms).
TickMs == GCD(GCD(StaggerMs, FlipMs), GCD(EndExtraMs, OverMs))
Ticks(ms) == ms \div TickMs

\* ------------------------------------------------------------------ bounds
\* resetGame may be clicked at most MaxResets times in a behaviour.
MaxResets == 1
\* A fetched text holds at most MaxLines lines.
MaxLines == 2

\* The word list the fetch delivered (already split, filtered and uppercased).
Dictionary == { <<"A","B","A","B","B">>, <<"B","A","A","A","B">> }

\* The words a player types: the dictionary and one word outside it.
TypedWords == Dictionary \cup { <<"A","B","A","C","C">> }

\* Targets and guesses for the evaluation taken on its own: every word over
\* three letters, and the words of the documented scenarios.
EvalAlphabet == {"A", "B", "C"}
CRANE == <<"C","R","A","N","E">>
REACT == <<"R","E","A","C","T">>
ALLOY == <<"A","L","L","O","Y">>
LOYAL == <<"L","O","Y","A","L">>
ScenarioWords == {CRANE, REACT, ALLOY, LOYAL}
EvalWords == [1..WORD_LENGTH -> EvalAlphabet] \cup ScenarioWords

\* ----------------------------------------------------------------- letters
LowerCase == <<"a","b","c","d","e","f","g","h","i","j","k","l","m",
               "n","o","p","q","r","s","t","u","v","w","x","y","z">>
UpperCase == <<"A","B","C","D","E","F","G","H","I","J","K","L","M",
               "N","O","P","Q","R","S","T","U","V","W","X","Y","Z">>

IsLetter(k) == \E n \in 1..26 : k = LowerCase[n] \/ k = UpperCase[n]
LetterIndex(k) == CHOOSE n \in 1..26 : k = LowerCase[n] \/ k = UpperCase[n]
toUpperCase(k) == IF IsLetter(k) THEN UpperCase[LetterIndex(k)] ELSE k
toLowerCase(k) == IF IsLetter(k) THEN LowerCase[LetterIndex(k)] ELSE k

Range(s) == { s[n] : n \in DOMAIN s }
Alphabet == UNION { Range(w) : w \in TypedWords } \cup EvalAlphabet
\* The on-screen keyboard's letter keys, by their data-key attribute.
LetterKeys == { toLowerCase(l) : l \in Alphabet }

Rows == 0..(MAX_GUESSES - 1)
Cols == 0..(WORD_LENGTH - 1)
Colours == {"correct", "present", "absent"}

VARIABLES
    validWords,      \* the loaded word list
    WORD,            \* the current target word
    currentRow, currentTile, gameOver, isAnimating,
    tileText,        \* tileText[r][c]: textContent of tile-r-c
    tileClass,       \* tileClass[r][c]: colour classes of tile-r-c
    keyClass,        \* keyClass[k]: colour classes of the key with data-key k
    helpShown,       \* helpModal has class 'show'
    messageText,     \* messageText.textContent
    playAgainShown,  \* playAgainBtn has class 'show'
    timers,          \* pending setTimeout callbacks, oldest first
    accepted,        \* history: guesses evaluated since the last resetGame
    resets           \* history: number of resetGame clicks

vars == << validWords, WORD, currentRow, currentTile, gameOver, isAnimating,
           tileText, tileClass, keyClass, helpShown, messageText,
           playAgainShown, timers, accepted, resets >>

\* --------------------------------------------------------- word list load
\* A text is a sequence of characters; a line is what split leaves of it.
NewLine == "\n"
Return == "\r"
Whitespace == {" ", "\t", NewLine, Return}

\* Line 27: text.split(/\r?\n/), scanning from character n with the line
\* cur under construction.  A "\r" right before a "\n" belongs to the
\* separator.
DropReturn(cur) ==
    IF cur # << >> /\ cur[Len(cur)] = Return
    THEN SubSeq(cur, 1, Len(cur) - 1) ELSE cur
RECURSIVE SplitFrom(_, _, _)
SplitFrom(text, n, cur) ==
    IF n > Len(text) THEN << cur >>
    ELSE IF text[n] = NewLine
         THEN << DropReturn(cur) >> \o SplitFrom(text, n + 1, << >>)
         ELSE SplitFrom(text, n + 1, Append(cur, text[n]))
split(text) == SplitFrom(text, 1, << >>)

\* Line 29: w.trim() removes the whitespace at both ends.
RECURSIVE trimStart(_)
trimStart(w) ==
    IF w # << >> /\ w[1] \in Whitespace THEN trimStart(Tail(w)) ELSE w
RECURSIVE trimEnd(_)
trimEnd(w) ==
    IF w # << >> /\ w[Len(w)] \in Whitespace
    THEN trimEnd(SubSeq(w, 1, Len(w) - 1)) ELSE w
trim(w) == trimEnd(trimStart(w))

\* Line 29: w.toUpperCase(), character by character.
wordToUpperCase(w) == [n \in DOMAIN w |-> toUpperCase(w[n])]

\* Lines 26-29: the lines of length WORD_LENGTH are kept, and then trimmed
\* and uppercased.
LoadWords(text) ==
    { wordToUpperCase(trim(l)) :
        l \in { m \in Range(split(text)) : Len(m) = WORD_LENGTH } }

\* Lines 96-97: validWords[idx] is undefined when the list is empty.
Undefined == << "undefined" >>
chooseNewWord(words) == IF words = {} THEN {Undefined} ELSE words

\* The lines a fetched text is made of, and the texts: up to MaxLines lines
\* joined by either separator.
LinePool ==
    { << "a","b","a","b","b" >>,
      << "B","A","A","A","B" >>,
      << " ","a","b","a"," " >>,
      << "a","b","a","b","b"," " >>,
      << "a","b","c" >>,
      << >> }
Separators == { << NewLine >>, << Return, NewLine >> }
RECURSIVE TextsOf(_)
TextsOf(n) ==
    IF n = 1 THEN LinePool
    ELSE LET shorter == TextsOf(n - 1) IN
         shorter \cup { t \o sep \o l :
                          t \in shorter, sep \in Separators, l \in LinePool }
Texts == TextsOf(MaxLines)

\* ------------------------------------------------------------- evaluation
\* Faulty variant of LetterCount: every letter of the target counts once.
LetterCountOnce(target) == [ch \in Range(target) |-> 1]

\* Lines 220-221: letterCount, one entry per letter occurring in the target.
LetterCount(target) ==
    [ch \in Range(target) |->
        Cardinality({ n \in DOMAIN target : target[n] = ch })]

\* Line 223: Array(WORD_LENGTH).fill('absent'), indexed 0..WORD_LENGTH-1.
AllAbsent == [i \in Cols |-> "absent"]

\* Faulty variant of Mark: the letter's count is not decremented.
MarkNoDecrement(ev, i, ch, st) ==
    [states      |-> [ev.states EXCEPT ![i] = st],
     letterCount |-> ev.letterCount]

\* Lines 227-228 and 234-235: set states[i] and decrement the letter's count.
Mark(ev, i, ch, st) ==
    [states      |-> [ev.states EXCEPT ![i] = st],
     letterCount |-> [ev.letterCount EXCEPT ![ch] = @ - 1]]

\* letterCount[ch] > 0; a letter missing from the object reads undefined and
\* undefined > 0 is false.
CountPositive(ev, ch) ==
    /\ ch \in DOMAIN ev.letterCount
    /\ ev.letterCount[ch] > 0

\* WORD[i]: undefined past the end of the word.
CharAt(w, i) == IF i + 1 \in DOMAIN w THEN w[i + 1] ELSE "undefined"

\* Lines 225-230, the loop from index i on.
RECURSIVE FirstPass(_, _, _, _)
FirstPass(i, ev, target, guessArr) ==
    IF i = WORD_LENGTH THEN ev
    ELSE IF guessArr[i + 1] = CharAt(target, i)
         THEN FirstPass(i + 1, Mark(ev, i, guessArr[i + 1], "correct"),
                        target, guessArr)
         ELSE FirstPass(i + 1, ev, target, guessArr)

\* Lines 232-237, the loop from index i on.
RECURSIVE SecondPass(_, _, _)
SecondPass(i, ev, guessArr) ==
    IF i = WORD_LENGTH THEN ev
    ELSE IF ev.states[i] = "absent" /\ CountPositive(ev, guessArr[i + 1])
         THEN SecondPass(i + 1, Mark(ev, i, guessArr[i + 1], "present"),
                         guessArr)
         ELSE SecondPass(i + 1, ev, guessArr)

\* Faulty variant of ComputeStates: a single pass, in which a position is
\* marked only while the letter's count is positive, so that an earlier
\* misplaced occurrence takes the count of a later exact match.
RECURSIVE OnePass(_, _, _, _)
OnePass(i, ev, target, guessArr) ==
    IF i = WORD_LENGTH THEN ev
    ELSE IF CountPositive(ev, guessArr[i + 1])
         THEN OnePass(i + 1,
                      Mark(ev, i, guessArr[i + 1],
                           IF guessArr[i + 1] = CharAt(target, i)
                           THEN "correct" ELSE "present"),
                      target, guessArr)
         ELSE OnePass(i + 1, ev, target, guessArr)
ComputeStatesOnePass(target, guessArr) ==
    OnePass(0, [states |-> AllAbsent, letterCount |-> LetterCount(target)],
            target, guessArr).states

\* Lines 219-237: the states array computed for guessArr against target.
ComputeStates(target, guessArr) ==
    SecondPass(0,
               FirstPass(0, [states |-> AllAbsent,
                             letterCount |-> LetterCount(target)],
                         target, guessArr),
               guessArr).states

\* Faulty variant of isValidWord: every word passes.
isValidWordAlways(w) == TRUE

\* Lines 189-191.
isValidWord(w) == w \in validWords

\* ------------------------------------------------------------------ timers
NoWord == << >>
Timer(kind, ms, i, st, letter, row, word) ==
    [kind |-> kind, rem |-> Ticks(ms), i |-> i, st |-> st,
     letter |-> letter, row |-> row, word |-> word,
     born |-> resets]     \* history: the session that set the timer

\* Lines 242-263: the callback revealing position i, scheduled at i * 100 ms.
RevealTimer(i, st, letter) ==
    Timer("reveal", i * StaggerMs, i, st, letter, 0, NoWord)
\* Line 245: add the colour class to the tile captured by the reveal callback.
ColourTimer(row, i, st) == Timer("colour", FlipMs, i, st, "", row, NoWord)
\* Lines 266-289: the end-of-animation callback, capturing guessWord.
EndTimer(guessWord) ==
    Timer("end", WORD_LENGTH * StaggerMs + EndExtraMs, 0, "", "", 0, guessWord)
\* Lines 272-275 (st = "win") and 279-282 (st = "lose").
OverTimer(outcome) == Timer("over", OverMs, 0, outcome, "", 0, NoWord)

\* Messages written to messageText.
Msg(text, word) == [text |-> text, word |-> word]
NoMessage == Msg("", NoWord)

\* Lines 128-137: showMessage (the text and the play-again button).
ShowMessage(m, showPlayAgain) ==
    /\ messageText' = m
    /\ playAgainShown' = showPlayAgain

\* Faulty variant of addLetter: a full row still takes the letter.
addLetterNoLimit(letter) ==
    /\ IF ~isAnimating
       THEN /\ tileText' = [tileText EXCEPT ![currentRow][currentTile] = letter]
            /\ currentTile' = currentTile + 1
       ELSE UNCHANGED << tileText, currentTile >>
    /\ UNCHANGED << validWords, WORD, currentRow, gameOver, isAnimating,
                    tileClass, keyClass, helpShown, messageText,
                    playAgainShown, timers, accepted, resets >>

\* ----------------------------------------------------------------- handlers
\* Lines 170-177.
addLetter(letter) ==
    /\ IF currentTile < WORD_LENGTH /\ ~isAnimating
       THEN /\ tileText' = [tileText EXCEPT ![currentRow][currentTile] = letter]
            /\ currentTile' = currentTile + 1
       ELSE UNCHANGED << tileText, currentTile >>
    /\ UNCHANGED << validWords, WORD, currentRow, gameOver, isAnimating,
                    tileClass, keyClass, helpShown, messageText,
                    playAgainShown, timers, accepted, resets >>

\* Lines 179-186.
deleteLetter ==
    /\ IF currentTile > 0 /\ ~isAnimating
       THEN /\ currentTile' = currentTile - 1
            /\ tileText' = [tileText EXCEPT ![currentRow][currentTile - 1] = ""]
       ELSE UNCHANGED << tileText, currentTile >>
    /\ UNCHANGED << validWords, WORD, currentRow, gameOver, isAnimating,
                    tileClass, keyClass, helpShown, messageText,
                    playAgainShown, timers, accepted, resets >>

\* Lines 204-210: the letters of the current row.
GuessArr == [n \in 1..WORD_LENGTH |-> tileText[currentRow][n - 1]]

\* Lines 239-289: lock the input and schedule the reveal and end callbacks.
StartAnimation(guessArr, states) ==
    /\ isAnimating' = TRUE
    /\ timers' = timers
                 \o [n \in 1..WORD_LENGTH |->
                        RevealTimer(n - 1, states[n - 1], guessArr[n])]
                 \o << EndTimer(guessArr) >>

\* Faulty variant of submitGuess: a short row is cleared when refused.
submitGuessClearsShortRow ==
    IF isAnimating THEN UNCHANGED vars
    ELSE IF currentTile # WORD_LENGTH
    THEN /\ ShowMessage(Msg("Not enough letters", NoWord), FALSE)
         /\ currentTile' = 0
         /\ tileText' = [tileText EXCEPT ![currentRow] = [c \in Cols |-> ""]]
         /\ UNCHANGED << validWords, WORD, currentRow, gameOver,
                         isAnimating, tileClass, keyClass,
                         helpShown, timers, accepted, resets >>
    ELSE IF ~isValidWord(GuessArr)
    THEN /\ ShowMessage(Msg("Not in word list", NoWord), FALSE)
         /\ UNCHANGED << validWords, WORD, currentRow, currentTile, gameOver,
                         isAnimating, tileText, tileClass, keyClass,
                         helpShown, timers, accepted, resets >>
    ELSE LET states == ComputeStates(WORD, GuessArr) IN
         /\ StartAnimation(GuessArr, states)
         /\ accepted' = Append(accepted, [guess |-> GuessArr, states |-> states])
         /\ UNCHANGED << validWords, WORD, currentRow, currentTile, gameOver,
                         tileText, tileClass, keyClass, helpShown,
                         messageText, playAgainShown, resets >>

\* Lines 194-290.
submitGuess ==
    IF isAnimating THEN UNCHANGED vars
    ELSE IF currentTile # WORD_LENGTH
    THEN /\ ShowMessage(Msg("Not enough letters", NoWord), FALSE)
         /\ UNCHANGED << validWords, WORD, currentRow, currentTile, gameOver,
                         isAnimating, tileText, tileClass, keyClass,
                         helpShown, timers, accepted, resets >>
    ELSE IF ~isValidWord(GuessArr)
    THEN /\ ShowMessage(Msg("Not in word list", NoWord), FALSE)
         /\ UNCHANGED << validWords, WORD, currentRow, currentTile, gameOver,
                         isAnimating, tileText, tileClass, keyClass,
                         helpShown, timers, accepted, resets >>
    ELSE LET states == ComputeStates(WORD, GuessArr) IN
         /\ StartAnimation(GuessArr, states)
         /\ accepted' = Append(accepted, [guess |-> GuessArr, states |-> states])
         /\ UNCHANGED << validWords, WORD, currentRow, currentTile, gameOver,
                         tileText, tileClass, keyClass, helpShown,
                         messageText, playAgainShown, resets >>

\* Lines 140-141.
openHelpModal ==
    /\ helpShown' = TRUE
    /\ UNCHANGED << validWords, WORD, currentRow, currentTile, gameOver,
                    isAnimating, tileText, tileClass, keyClass, messageText,
                    playAgainShown, timers, accepted, resets >>

\* Lines 162-163.
closeHelpModal ==
    /\ helpShown' = FALSE
    /\ UNCHANGED << validWords, WORD, currentRow, currentTile, gameOver,
                    isAnimating, tileText, tileClass, keyClass, messageText,
                    playAgainShown, timers, accepted, resets >>

\* Lines 102-125 with chooseNewWord (lines 95-99).  Pending timers are not
\* cleared and the message text is not rewritten.
resetGame ==
    /\ currentRow' = 0
    /\ currentTile' = 0
    /\ gameOver' = FALSE
    /\ isAnimating' = FALSE
    /\ tileText' = [r \in Rows |-> [c \in Cols |-> ""]]
    /\ tileClass' = [r \in Rows |-> [c \in Cols |-> {}]]
    /\ keyClass' = [k \in LetterKeys |-> {}]
    /\ playAgainShown' = FALSE
    /\ WORD' \in chooseNewWord(validWords)
    /\ accepted' = << >>
    /\ resets' = resets + 1
    /\ UNCHANGED << validWords, helpShown, messageText, timers >>

\* Lines 67 and 81: the early return of both input listeners.
InputBlocked == gameOver \/ helpShown \/ isAnimating

\* Lines 66-77: the keydown listener.
OnKeyDown(key) ==
    IF InputBlocked THEN UNCHANGED vars
    ELSE IF key = "Escape" /\ helpShown THEN closeHelpModal
    ELSE IF key = "Enter" THEN submitGuess
    ELSE IF key = "Backspace" THEN deleteLetter
    ELSE IF IsLetter(key) THEN addLetter(toUpperCase(key))
    ELSE UNCHANGED vars

\* Lines 80-90: the click listener of an on-screen key.
OnKeyClick(k) ==
    IF InputBlocked THEN UNCHANGED vars
    ELSE IF k = "enter" THEN submitGuess
    ELSE IF k = "backspace" THEN deleteLetter
    ELSE addLetter(toUpperCase(k))

\* --------------------------------------------------------- timer callbacks
\* Faulty variant of UpdateKey: the key takes the state of the last reveal.
UpdateKeyOverwrite(classes, st) == {st}

\* Lines 250-262: the key's colour classes after a reveal of state st.
UpdateKey(classes, st) ==
    IF st = "correct" THEN (classes \ {"present", "absent"}) \cup {"correct"}
    ELSE IF st = "present" /\ "correct" \notin classes
    THEN (classes \ {"absent"}) \cup {"present"}
    ELSE IF st = "absent" /\ "correct" \notin classes
                          /\ "present" \notin classes
    THEN classes \cup {"absent"}
    ELSE classes

\* The timer the event loop runs next: the oldest one that is due.
Due == { k \in DOMAIN timers : timers[k].rem = 0 }
NextDue == CHOOSE k \in Due : \A j \in Due : k <= j
Remaining == [n \in 1..(Len(timers) - 1) |->
                 IF n < NextDue THEN timers[n] ELSE timers[n + 1]]
DueKind(kind) == Due # {} /\ timers[NextDue].kind = kind

\* Lines 242-263: reveal position i of the row that is current now.
FireReveal ==
    /\ DueKind("reveal")
    /\ LET t == timers[NextDue] IN
       /\ timers' = Append(Remaining, ColourTimer(currentRow, t.i, t.st))
       /\ keyClass' = [keyClass EXCEPT ![toLowerCase(t.letter)] =
                                           UpdateKey(@, t.st)]
    /\ UNCHANGED << validWords, WORD, currentRow, currentTile, gameOver,
                    isAnimating, tileText, tileClass, helpShown, messageText,
                    playAgainShown, accepted, resets >>

\* Line 245: tile.classList.add(st).
FireColour ==
    /\ DueKind("colour")
    /\ LET t == timers[NextDue] IN
       tileClass' = [tileClass EXCEPT ![t.row][t.i] = @ \cup {t.st}]
    /\ timers' = Remaining
    /\ UNCHANGED << validWords, WORD, currentRow, currentTile, gameOver,
                    isAnimating, tileText, keyClass, helpShown, messageText,
                    playAgainShown, accepted, resets >>

\* Faulty variant of FireEnd: the lock is not released.
FireEndKeepsLock ==
    /\ DueKind("end")
    /\ LET t == timers[NextDue] IN
       IF t.word = WORD
       THEN /\ timers' = Append(Remaining, OverTimer("win"))
            /\ UNCHANGED << currentRow, currentTile >>
       ELSE IF currentRow = MAX_GUESSES - 1
       THEN /\ timers' = Append(Remaining, OverTimer("lose"))
            /\ UNCHANGED << currentRow, currentTile >>
       ELSE /\ currentRow' = currentRow + 1
            /\ currentTile' = 0
            /\ timers' = Remaining
    /\ UNCHANGED << validWords, WORD, gameOver, isAnimating, tileText,
                    tileClass, keyClass, helpShown, messageText,
                    playAgainShown, accepted, resets >>

\* Lines 266-289: release the lock, then win, lose or advance.
FireEnd ==
    /\ DueKind("end")
    /\ isAnimating' = FALSE
    /\ LET t == timers[NextDue] IN
       IF t.word = WORD
       THEN /\ timers' = Append(Remaining, OverTimer("win"))
            /\ UNCHANGED << currentRow, currentTile >>
       ELSE IF currentRow = MAX_GUESSES - 1
       THEN /\ timers' = Append(Remaining, OverTimer("lose"))
            /\ UNCHANGED << currentRow, currentTile >>
       ELSE /\ currentRow' = currentRow + 1
            /\ currentTile' = 0
            /\ timers' = Remaining
    /\ UNCHANGED << validWords, WORD, gameOver, tileText, tileClass, keyClass,
                    helpShown, messageText, playAgainShown, accepted, resets >>

\* Faulty variant of FireOver: the callback also picks a new word.
FireOverChoosesWord ==
    /\ DueKind("over")
    /\ LET t == timers[NextDue] IN
       IF t.st = "win"
       THEN ShowMessage(Msg("Magnificent!", NoWord), TRUE)
       ELSE ShowMessage(Msg("The word was", WORD), TRUE)
    /\ gameOver' = TRUE
    /\ timers' = Remaining
    /\ WORD' \in chooseNewWord(validWords)
    /\ UNCHANGED << validWords, currentRow, currentTile, isAnimating,
                    tileText, tileClass, keyClass, helpShown, accepted,
                    resets >>

\* Lines 272-275 and 279-282: show the final message, set gameOver.
FireOver ==
    /\ DueKind("over")
    /\ LET t == timers[NextDue] IN
       IF t.st = "win"
       THEN ShowMessage(Msg("Magnificent!", NoWord), TRUE)
       ELSE ShowMessage(Msg("The word was", WORD), TRUE)
    /\ gameOver' = TRUE
    /\ timers' = Remaining
    /\ UNCHANGED << validWords, WORD, currentRow, currentTile, isAnimating,
                    tileText, tileClass, keyClass, helpShown, accepted,
                    resets >>

\* One tick of time passes; no timer is overdue.
Tick ==
    /\ timers # << >>
    /\ Due = {}
    /\ timers' = [n \in DOMAIN timers |->
                     [timers[n] EXCEPT !.rem = @ - 1]]
    /\ UNCHANGED << validWords, WORD, currentRow, currentTile, gameOver,
                    isAnimating, tileText, tileClass, keyClass, helpShown,
                    messageText, playAgainShown, accepted, resets >>

\* ------------------------------------------------------------- environment
\* Keys of the physical keyboard (e.key) and of the on-screen keyboard.
KeyboardKeys == {"Enter", "Backspace", "Escape"} \cup Alphabet \cup LetterKeys
ScreenKeys == {"enter", "backspace"} \cup LetterKeys

\* The player types words of TypedWords: a letter key is pressed on an
\* unfinished row only when it extends the row to a prefix of such a word.
Types(k) ==
    (IsLetter(k) /\ currentTile < WORD_LENGTH) =>
        \E w \in TypedWords :
            /\ \A n \in 1..currentTile : w[n] = tileText[currentRow][n - 1]
            /\ w[currentTile + 1] = toUpperCase(k)

\* The player acts at the instants at which the page changes: while no
\* timer is pending, or at an instant at which a timer is due (before or
\* between the callbacks of that instant).
Instant == timers = << >> \/ Due # {}

\* The player acts only while no tile is flipping: no reveal callback and no
\* colour callback is pending.
Calm == \A k \in DOMAIN timers : timers[k].kind \in {"end", "over"}

KeyDown ==
    \E key \in KeyboardKeys :
        Instant /\ Calm /\ Types(key) /\ OnKeyDown(key)
KeyClick ==
    \E k \in ScreenKeys :
        Instant /\ Calm /\ Types(k) /\ OnKeyClick(k)

\* Line 59: the play-again button, clickable while it is shown.
ClickPlayAgain ==
    /\ Instant
    /\ Calm
    /\ playAgainShown
    /\ resets < MaxResets
    /\ resetGame

\* Lines 60-64.
ClickHelp == Instant /\ Calm /\ openHelpModal
ClickCloseHelp == Instant /\ Calm /\ helpShown /\ closeHelpModal

\* Lines 25-33: the state once the word list is loaded and resetGame has run.
Init ==
    /\ validWords = Dictionary
    /\ WORD \in validWords
    /\ currentRow = 0
    /\ currentTile = 0
    /\ gameOver = FALSE
    /\ isAnimating = FALSE
    /\ tileText = [r \in Rows |-> [c \in Cols |-> ""]]
    /\ tileClass = [r \in Rows |-> [c \in Cols |-> {}]]
    /\ keyClass = [k \in LetterKeys |-> {}]
    /\ helpShown = FALSE
    /\ messageText = NoMessage
    /\ playAgainShown = FALSE
    /\ timers = << >>
    /\ accepted = << >>
    /\ resets = 0

Next ==
    \/ KeyDown
    \/ KeyClick
    \/ ClickPlayAgain
    \/ ClickHelp
    \/ ClickCloseHelp
    \/ FireReveal
    \/ FireColour
    \/ FireEnd
    \/ FireOver
    \/ Tick

Spec == Init /\ [][Next]_vars

\* The event loop runs every timer that was set: while one is pending,
\* time passes and the callback that is due is run.
TimerStep == FireReveal \/ FireColour \/ FireEnd \/ FireOver \/ Tick
SpecFair == Spec /\ WF_vars(TimerStep)

\* ---------------------------------------------- evaluation on its own
\* A full row holding any guess, against any target, both in the word list.
InitEval ==
    /\ validWords = EvalWords
    /\ WORD \in validWords
    /\ currentRow = 0
    /\ currentTile = WORD_LENGTH
    /\ gameOver = FALSE
    /\ isAnimating = FALSE
    /\ \E g \in EvalWords :
           tileText = [r \in Rows |-> [c \in Cols |->
                          IF r = 0 THEN g[c + 1] ELSE ""]]
    /\ tileClass = [r \in Rows |-> [c \in Cols |-> {}]]
    /\ keyClass = [k \in LetterKeys |-> {}]
    /\ helpShown = FALSE
    /\ messageText = NoMessage
    /\ playAgainShown = FALSE
    /\ timers = << >>
    /\ accepted = << >>
    /\ resets = 0

PressEnter == OnKeyDown("Enter")
NextEval == PressEnter
SpecEval == InitEval /\ [][NextEval]_vars

\* The word list load: the state after the fetch callback has run on any of
\* the texts, and the player typing and submitting on the first row.
InitLoad ==
    /\ \E text \in Texts : validWords = LoadWords(text)
    /\ WORD \in chooseNewWord(validWords)
    /\ currentRow = 0
    /\ currentTile = 0
    /\ gameOver = FALSE
    /\ isAnimating = FALSE
    /\ tileText = [r \in Rows |-> [c \in Cols |-> ""]]
    /\ tileClass = [r \in Rows |-> [c \in Cols |-> {}]]
    /\ keyClass = [k \in LetterKeys |-> {}]
    /\ helpShown = FALSE
    /\ messageText = NoMessage
    /\ playAgainShown = FALSE
    /\ timers = << >>
    /\ accepted = << >>
    /\ resets = 0

NextLoad ==
    \/ KeyDown
    \/ KeyClick
SpecLoad == InitLoad /\ [][NextLoad]_vars

\* The hurried player: plays one session, clicks play again at any instant
\* at which the button is shown, tiles flipping or not, and then watches.
KeyDownFirst == resets = 0 /\ KeyDown
KeyClickFirst == resets = 0 /\ KeyClick
ClickPlayAgainNow ==
    /\ Instant
    /\ playAgainShown
    /\ resets < MaxResets
    /\ resetGame
NextRush ==
    \/ KeyDownFirst
    \/ KeyClickFirst
    \/ ClickPlayAgainNow
    \/ FireReveal
    \/ FireColour
    \/ FireEnd
    \/ FireOver
    \/ Tick
SpecRush == Init /\ [][NextRush]_vars

\* ------------------------------------------------------------- vocabulary
AcceptedWords == { accepted[n].guess : n \in DOMAIN accepted }
WinMessage == Msg("Magnificent!", NoWord)
\* The won and the lost outcome: final message shown, gameOver set.
WonOutcome == gameOver /\ playAgainShown /\ messageText = WinMessage
LostOutcome ==
    gameOver /\ playAgainShown /\ messageText.text = "The word was"
\* A step of an enter, of any key or button of the keyboards.
EnterStep == OnKeyDown("Enter") \/ OnKeyClick("enter")
KeyStep == KeyDown \/ KeyClick
\* A key's status under none < absent < present < correct.
Rank(classes) ==
    IF "correct" \in classes THEN 3
    ELSE IF "present" \in classes THEN 2
    ELSE IF "absent" \in classes THEN 1
    ELSE 0
Count(w, ch) == Cardinality({ n \in DOMAIN w : w[n] = ch })
\* Positions of an accepted guess holding ch whose state is not 'absent'.
Hits(a, ch) ==
    Cardinality({ i \in Cols : a.guess[i + 1] = ch /\ a.states[i] # "absent" })

\* ------------------------------------------------------------------ claims
\* C1: a session reaches the won outcome only if some guess accepted in it
\* equals WORD, and a session in which a guess equal to WORD was accepted
\* never reaches the lost outcome.
C1_WonIffGuessed ==
    /\ WonOutcome => WORD \in AcceptedWords
    /\ WORD \in AcceptedWords => ~LostOutcome

\* C2: a session reaches the lost outcome only once its sixth guess has been
\* accepted, none of its first six accepted guesses being WORD.
C2_LostIffSixMisses ==
    LostOutcome =>
        /\ Len(accepted) >= MAX_GUESSES
        /\ \A n \in 1..MAX_GUESSES : accepted[n].guess # WORD

\* C3: between two resetGame calls at most MAX_GUESSES guesses are accepted.
C3_AtMostSixAccepted == Len(accepted) <= MAX_GUESSES

\* C4: once a guess equal to WORD or a sixth guess has been accepted, no
\* letter, backspace or enter input changes currentRow, currentTile, a
\* tile's letter or colour, or a key's status.
TerminalSession ==
    WORD \in AcceptedWords \/ Len(accepted) >= MAX_GUESSES
C4_TerminalIsFrozen ==
    [][(TerminalSession /\ KeyStep) =>
          UNCHANGED << currentRow, currentTile, tileText, tileClass,
                       keyClass >>]_vars

\* C5: submitGuess on a full row whose word is not in validWords changes
\* none of currentRow, currentTile, the letters, the tile colours, the key
\* statuses, isAnimating, gameOver, and accepts no guess.
C5_RejectedWordKeepsState ==
    [][(/\ EnterStep
        /\ ~InputBlocked
        /\ currentTile = WORD_LENGTH
        /\ GuessArr \notin validWords) =>
          UNCHANGED << currentRow, currentTile, tileText, tileClass,
                       keyClass, isAnimating, gameOver, accepted,
                       timers >>]_vars
\* C5 witness: a full row outside the word list has just been refused.
C5_Witness ==
    /\ messageText.text = "Not in word list"
    /\ currentTile = WORD_LENGTH
    /\ GuessArr \notin validWords
    /\ ~InputBlocked
    /\ Len(accepted) >= 1

\* C6: submitGuess on a row holding fewer than WORD_LENGTH letters changes
\* none of currentRow, currentTile, the letters, the tile colours, the key
\* statuses, isAnimating, gameOver, and evaluates nothing.
C6_ShortRowKeepsState ==
    [][(/\ EnterStep
        /\ ~InputBlocked
        /\ currentTile # WORD_LENGTH) =>
          UNCHANGED << currentRow, currentTile, tileText, tileClass,
                       keyClass, isAnimating, gameOver, accepted,
                       timers >>]_vars
\* C6 witness: a row of one to four letters has just been refused.
C6_Witness ==
    /\ messageText.text = "Not enough letters"
    /\ currentTile \in 1..(WORD_LENGTH - 1)
    /\ ~InputBlocked
    /\ Len(accepted) >= 1

\* C7: whenever an input is accepted, the effects of every accepted guess
\* (tile colours, keyboard merge, row advance or final status) are all
\* applied or all absent.  The effects of a guess are its timer callbacks;
\* a guess none of whose effects is applied still has its whole block of
\* reveal callbacks and end callback pending.
InUntouchedBlock(k) ==
    \E j \in DOMAIN timers :
        /\ timers[j].kind = "reveal"
        /\ timers[j].i = 0
        /\ j <= k
        /\ k <= j + WORD_LENGTH
PartlyApplied == \E k \in DOMAIN timers : ~InUntouchedBlock(k)
C7_SubmitIsAtomic == ~InputBlocked => ~PartlyApplied

\* C8: from a resetGame until the first guess of the new session is
\* accepted, currentRow is 0, no tile is coloured, no key has a status and
\* gameOver is false.
C8_FreshAfterReset ==
    accepted = << >> =>
        /\ currentRow = 0
        /\ ~gameOver
        /\ \A r \in Rows : \A c \in Cols : tileClass[r][c] = {}
        /\ \A k \in LetterKeys : keyClass[k] = {}

\* C9: between two resetGame calls no key's status moves down the order
\* none < absent < present < correct.
C9_KeyStatusMonotone ==
    [][resets' = resets =>
          \A k \in LetterKeys : Rank(keyClass'[k]) >= Rank(keyClass[k])]_vars
\* C9 witness: a key is 'correct' although the last guess, fully revealed,
\* holds its letter at a position that is not 'correct'.
C9_Witness ==
    /\ timers = << >>
    /\ Len(accepted) >= 2
    /\ \E i \in Cols :
          LET a == accepted[Len(accepted)] IN
          /\ a.states[i] # "correct"
          /\ keyClass[toLowerCase(a.guess[i + 1])] = {"correct"}

\* C10: in every computed result, for every letter, the positions of the
\* guess holding the letter with state 'correct' or 'present' are at most
\* the letter's occurrences in the target.
C10_Conservation ==
    \A n \in DOMAIN accepted :
        \A ch \in Alphabet \cup Range(accepted[n].guess) :
            Hits(accepted[n], ch) <= Count(WORD, ch)
\* C10 witness: a letter the guess holds more often than the target, with
\* one occurrence marked 'present' and another left 'absent'.
C10_Witness ==
    \E n \in DOMAIN accepted : \E ch \in Alphabet :
        LET a == accepted[n] IN
        /\ Count(a.guess, ch) > Count(WORD, ch)
        /\ Hits(a, ch) = Count(WORD, ch)
        /\ \E i, j \in Cols :
              /\ a.guess[i + 1] = ch /\ a.states[i] = "present"
              /\ a.guess[j + 1] = ch /\ a.states[j] = "absent"

\* C11: in every computed result the state at position i is 'correct' if
\* and only if the guess and the target hold the same letter at i.
C11_Priority ==
    \A n \in DOMAIN accepted : \A i \in Cols :
        accepted[n].states[i] = "correct"
            <=> accepted[n].guess[i + 1] = WORD[i + 1]
\* C11 witness: a letter the target holds once, misplaced at an earlier
\* position of the guess (left 'absent') and exact at a later one.
C11_Witness ==
    \E n \in DOMAIN accepted : \E i, j \in Cols :
        LET a == accepted[n] IN
        /\ i < j
        /\ a.guess[i + 1] = a.guess[j + 1]
        /\ Count(WORD, a.guess[j + 1]) = 1
        /\ a.guess[j + 1] = WORD[j + 1]
        /\ a.states[j] = "correct"
        /\ a.states[i] = "absent"

\* C13: CRANE against REACT gives present, present, correct, present,
\* absent; ALLOY against LOYAL gives present at all five positions.
StatesOf(target, guess) ==
    { accepted[n].states :
        n \in { m \in DOMAIN accepted :
                  WORD = target /\ accepted[m].guess = guess } }
C13_Scenarios ==
    /\ StatesOf(CRANE, REACT) \subseteq
         { (0 :> "present" @@ 1 :> "present" @@ 2 :> "correct"
            @@ 3 :> "present" @@ 4 :> "absent") }
    /\ StatesOf(ALLOY, LOYAL) \subseteq { [i \in Cols |-> "present"] }
\* C13 witness: LOYAL has been evaluated against ALLOY.
C13_Witness == StatesOf(ALLOY, LOYAL) # {}

\* C12: a guess equal to the target is evaluated 'correct' at all five
\* positions, and the session in which it was accepted ends as won: once
\* every callback has run, the outcome shown is the won one.
AllCorrect(a) == \A i \in Cols : a.states[i] = "correct"
C12_ExactMatchWins ==
    /\ \A n \in DOMAIN accepted :
           accepted[n].guess = WORD => AllCorrect(accepted[n])
    /\ (timers = << >> /\ WORD \in AcceptedWords) => WonOutcome

\* C14: after the load every word of validWords has exactly WORD_LENGTH
\* letters and is in upper case, whatever the text.
C14_LoadedWordsCanonical ==
    \A w \in validWords :
        /\ Len(w) = WORD_LENGTH
        /\ \A n \in DOMAIN w : w[n] = toUpperCase(w[n])

\* C15: a session in progress has its target in validWords; in particular
\* none is begun from a list with no word.
C15_TargetFromList == ~gameOver => WORD \in validWords

\* C16: the target is fixed for the session: no key or button of the
\* keyboards and no timer callback changes WORD; WORD changes only in a
\* step of resetGame.
C16_TargetFixed ==
    [][/\ (KeyStep \/ TimerStep) => WORD' = WORD
       /\ WORD' # WORD => resets' = resets + 1]_vars
\* C16 witness: letters were typed, a guess was accepted and all its
\* callbacks have run, in a session begun by resetGame.
C16_Witness ==
    /\ resets > 0
    /\ accepted # << >>
    /\ gameOver
    /\ timers = << >>

\* C17: a letter input does nothing when the session is terminal or the
\* current row is full; otherwise (the listener not being held back by the
\* help dialog or a running animation) it writes the upper-case letter at
\* currentTile of the current row, adds one to currentTile and changes
\* nothing else.
LetterWritten(l) ==
    /\ tileText' = [tileText EXCEPT ![currentRow][currentTile] =
                                        toUpperCase(l)]
    /\ currentTile' = currentTile + 1
    /\ UNCHANGED << validWords, WORD, currentRow, gameOver, isAnimating,
                    tileClass, keyClass, helpShown, messageText,
                    playAgainShown, timers, accepted, resets >>
C17_LetterInput ==
    [][\A l \in Alphabet \cup LetterKeys :
          (OnKeyDown(l) \/ OnKeyClick(toLowerCase(l))) =>
             IF TerminalSession \/ currentTile = WORD_LENGTH
             THEN UNCHANGED vars
             ELSE InputBlocked \/ LetterWritten(l)]_vars

\* C20: when the end callback of an accepted guess has run (the lock is
\* released) currentTile is 0, whether the guess won, was the sixth losing
\* one or let the game advance; and if the row changed, it went up by one.
C20_RowClearedAfterGuess ==
    [][FireEnd =>
          /\ currentTile' = 0
          /\ currentRow' # currentRow => currentRow' = currentRow + 1]_vars

\* C18: once the reveals of the accepted guesses have run, each key's
\* status is the highest (absent < present < correct) of the states
\* computed for its letter over all positions of all guesses accepted in the
\* session, and a letter never guessed has no status.
RevealsDone == \A k \in DOMAIN timers : timers[k].kind # "reveal"
StatesFor(k) ==
    { accepted[p[1]].states[p[2]] :
        p \in { q \in (DOMAIN accepted) \X Cols :
                  accepted[q[1]].guess[q[2] + 1] = toUpperCase(k) } }
C18_KeyStatusIsMax ==
    RevealsDone =>
        \A k \in LetterKeys : Rank(keyClass[k]) = Rank(StatesFor(k))

\* C19: while a guess of the session is being animated, from its acceptance
\* until its end callback has run, no key or button of the keyboards
\* changes currentRow, currentTile, a tile's letter or the pending timers,
\* and no further evaluation starts.
BeingAnimated ==
    \E k \in DOMAIN timers :
        timers[k].kind = "end" /\ timers[k].born = resets
C19_NoInputWhileAnimating ==
    [][(BeingAnimated /\ KeyStep) =>
          UNCHANGED << currentRow, currentTile, tileText, timers,
                       accepted >>]_vars

\* C22: in every reachable state currentRow is between 0 and MAX_GUESSES - 1
\* and currentTile between 0 and WORD_LENGTH, so that every tile looked up
\* from them is a tile of the grid.
C22_IndicesInGrid ==
    /\ currentRow \in 0..(MAX_GUESSES - 1)
    /\ currentTile \in 0..WORD_LENGTH
    /\ currentRow \in DOMAIN tileText
    /\ \A c \in 0..(currentTile - 1) : c \in DOMAIN tileText[currentRow]
\* C22 witness: after a resetGame the last row of the grid is full.
C22_Witness ==
    /\ resets > 0
    /\ currentRow = MAX_GUESSES - 1
    /\ currentTile = WORD_LENGTH

\* C21: with every timer that was set eventually run, the animation lock is
\* never held forever (a state with isAnimating is followed by one without),
\* and a session in which a guess equal to WORD or a sixth guess has been
\* accepted is followed by a state with gameOver.
C21_LockReleasedAndOver ==
    /\ isAnimating ~> ~isAnimating
    /\ TerminalSession ~> gameOver
\* C21 witness: a sixth guess, not equal to WORD, was accepted, the lock is
\* released and gameOver is set.
C21_Witness ==
    /\ Len(accepted) = MAX_GUESSES
    /\ WORD \notin AcceptedWords
    /\ ~isAnimating
    /\ gameOver

====
